---- MODULE Spec2Model ----
(***************************************************************************)
(* CropServiceBot (src/CropServiceBot.py): the conversation state machine  *)
(* of the bot, its listing store and its single interface message.         *)
(*                                                                         *)
(* A text is a sequence of one-character strings, so that str.strip(),     *)
(* len() and re.fullmatch() are computed on characters as the code does.   *)
(* Time is datetime.utcnow() in whole minutes; a listing's created_at is   *)
(* the clock value at its insertion (isoformat()/fromisoformat() give the  *)
(* same instant back, so created_at is kept as that number).               *)
(* A chat is a private chat: chat.id = from_user.id.                       *)
(***************************************************************************)
EXTENDS Integers, Sequences, FiniteSets, TLC

VARIABLES now, posts, nextId, sess, last

vars == <<now, posts, nextId, sess, last>>

(***************************************************************************)
(* Program constants                                                       *)
(***************************************************************************)
MY_POSTS_PER_PAGE == 5
VIEW_POSTS_PER_PAGE == 5
DESC_MAX_LEN == 300
EDIT_WINDOW_MINUTES == 15

\* The names (second components) of CATEGORIES, by index 0..9.
CATEGORIES ==
  <<"Remoment i budivnytstvo", "Prybyrannya i pobutova dopomoha",
    "Kuryerski ta transportni posluhy", "Dopomoha z tvarynamy",
    "IT ta tsyfrovi posluhy", "Osvitni posluhy", "Krasa ta zdorovya",
    "Podiyi ta dopomoha na zakhodakh", "Sezonna/razova robota", "Inshe">>

\* The keys of TYPE_EMOJIS: the two listing types ('робота', 'послуга').
TYPES == {"robota", "posluga"}

(***************************************************************************)
(* Bounds of the model                                                     *)
(***************************************************************************)
\* The clock stops advancing at MaxNow minutes.
MaxNow == 15
\* One Tick of the clock, in minutes.
TickMinutes == 5
\* At most MaxPosts listings are ever inserted (ids 1..MaxPosts).
MaxPosts == 1
\* In the navigation scenarios /start and the deletion of a message are
\* accepted while fewer than MaxMsgs interface messages were sent.
MaxMsgs == 2
\* The shared scenario starts with MaxOwned listings of user 1.
MaxOwned == 6
\* In the concurrency scenario at most MaxInFlight handlers of one session
\* wait in an await at the same time, and at most MaxConfirmed listings
\* are inserted.
MaxInFlight == 2
MaxConfirmed == 3
\* In the retention scenario the clock stops after MaxDays days.
MaxDays == 8
\* The paging scenario starts with 1..MaxTotal listings of one user.
MaxTotal == 12

Users == {1, 2}

(***************************************************************************)
(* Texts                                                                   *)
(***************************************************************************)
Whitespace == {" ", "\t", "\n"}
\* \d on the characters the model's texts are made of (ASCII).
Digits == {"0", "1", "2", "3", "4", "5", "6", "7", "8", "9"}
AsciiLetters ==
  {"a", "b", "c", "d", "e", "f", "g", "h", "i", "j", "k", "l", "m",
   "n", "o", "p", "q", "r", "s", "t", "u", "v", "w", "x", "y", "z",
   "A", "B", "C", "D", "E", "F", "G", "H", "I", "J", "K", "L", "M",
   "N", "O", "P", "Q", "R", "S", "T", "U", "V", "W", "X", "Y", "Z"}

Rep(c, n) == [i \in 1..n |-> c]

\* str.strip(): leading and trailing whitespace removed.
RECURSIVE lstrip(_)
lstrip(s) ==
  IF s # <<>> /\ Head(s) \in Whitespace THEN lstrip(Tail(s)) ELSE s

RECURSIVE rstrip(_)
rstrip(s) ==
  IF s # <<>> /\ s[Len(s)] \in Whitespace
    THEN rstrip(SubSeq(s, 1, Len(s) - 1))
    ELSE s

\* strip() replaced by lstrip(): trailing whitespace is kept.
strip_left_only(s) == lstrip(s)

strip(s) == rstrip(lstrip(s))

\* 0\d{9}
MatchLocalPhone(s) ==
  /\ Len(s) = 10
  /\ s[1] = "0"
  /\ \A i \in 2..10 : s[i] \in Digits

\* \+380\d{9}
MatchIntlPhone(s) ==
  /\ Len(s) = 13
  /\ SubSeq(s, 1, 4) = <<"+", "3", "8", "0">>
  /\ \A i \in 5..13 : s[i] \in Digits

\* @[a-zA-Z0-9_]{5,32}
MatchUsername(s) ==
  /\ Len(s) \in 6..33
  /\ s[1] = "@"
  /\ \A i \in 2..Len(s) : s[i] \in AsciiLetters \cup Digits \cup {"_"}

\* The pattern without its @username alternative.
phone_pattern_phones_only(s) == MatchLocalPhone(s) \/ MatchIntlPhone(s)

\* re.fullmatch(phone_pattern, text)
phone_pattern(s) == MatchLocalPhone(s) \/ MatchIntlPhone(s) \/ MatchUsername(s)

\* The length test off by one: 301 characters pass.
too_long_off_by_one(text) == Len(text) > DESC_MAX_LEN + 1

\* len(text) > 300 of add_desc and process_edit.
too_long(text) == Len(text) > DESC_MAX_LEN

(***************************************************************************)
(* FSM storage (MemoryStorage) and the chat                                *)
(*                                                                         *)
(* sess[u] is the record of user u: state and data are the FSMContext of   *)
(* the user, sent is the number of messages the bot has sent to the chat   *)
(* (their ids are 1..sent), chat maps the id of every bot message the chat *)
(* still shows to its content, and shown is the content of the latest      *)
(* call of update_or_send_interface_message.  awaiting lists the handlers   *)
(* of the session that the event loop has started and that wait in their   *)
(* first await.  written is a history of the session: the draft fields     *)
(* written since the state was last set to ADD_TYPE.  The history is read  *)
(* in the states of the creation flow only, which a session with no        *)
(* waiting handler enters through ADD_TYPE, so it is also emptied when     *)
(* such a session is set to a state outside the flow.                      *)
(***************************************************************************)
EmptyDict == [k \in {} |-> 0]

\* data.get(k, default)
Get(d, k, default) == IF k \in DOMAIN d THEN d[k] ELSE default

Has(d, k) == k \in DOMAIN d

Put(d, k, v) == [x \in DOMAIN d \cup {k} |-> IF x = k THEN v ELSE d[x]]

\* A key given the value None reads, through data.get, as an absent key.
PutNone(d, k) == [x \in DOMAIN d \ {k} |-> d[x]]

\* The fields of the draft of a listing.
DraftKeys == {"type", "category", "desc", "cont"}

update_data(S, k, v) ==
  [S EXCEPT !.data = Put(S.data, k, v),
            !.written = IF k \in DraftKeys THEN @ \cup {k} ELSE @]

\* The states of the creation flow after ADD_TYPE.
DraftStates == {"ADD_CAT", "ADD_DESC", "ADD_CONT", "ADD_CONFIRM"}

set_state(S, st) ==
  [S EXCEPT !.state = st,
            !.written = IF st \in DraftStates \/ (st # "ADD_TYPE" /\ S.awaiting # <<>>)
                          THEN @ ELSE {}]

\* A message's content: the template of its text and, for a page of
\* listings, what the page shows and which controls it offers.
\* nav is the set of offsets carried by the pagination buttons.
Screen(kind) ==
  [kind |-> kind, items |-> <<>>, edit |-> {}, prev |-> FALSE,
   next |-> FALSE, nav |-> {}, page |-> 0, pages |-> 0]

\* bot.edit_message_text(message_id, text, reply_markup): what Telegram
\* answers for the messages the chat shows.
edit_message_text(chat, message_id, content) ==
  IF message_id \notin DOMAIN chat THEN "MessageToEditNotFound"
  ELSE IF chat[message_id] = content THEN "MessageNotModified"
  ELSE "ok"

\* bot.send_message followed by update_data(last_bot_message_id=...).
send_message(S, content) ==
  [S EXCEPT !.sent = S.sent + 1,
            !.shown = content,
            !.chat = Put(S.chat, S.sent + 1, content),
            !.data = Put(S.data, "last_bot_message_id", S.sent + 1)]

\* The same without recording the id of the new message.
send_message_id_not_recorded(S, content) ==
  [S EXCEPT !.sent = S.sent + 1,
            !.shown = content,
            !.chat = Put(S.chat, S.sent + 1, content)]

\* The branch taken when the edit of the recorded message fails with a
\* BadRequest (the message is gone).
send_after_edit_failure(S, content) == send_message(S, content)

\* update_or_send_interface_message with send_message answering every
\* call: the recorded message is edited in place (or left as it is when
\* Telegram reports the content unchanged); without a recorded message, or
\* when the recorded message cannot be edited, a new one is sent and its id
\* recorded.
update_or_send_interface_message(S, content) ==
  IF Has(S.data, "last_bot_message_id")
    THEN LET id == S.data["last_bot_message_id"]
             answer == edit_message_text(S.chat, id, content)
         IN CASE answer = "ok" ->
                   [S EXCEPT !.shown = content, !.chat = Put(S.chat, id, content)]
              [] answer = "MessageNotModified" -> [S EXCEPT !.shown = content]
              [] OTHER -> send_after_edit_failure(S, content)
    ELSE send_message(S, content)

\* The welcome screen rendered without the set_state that follows it.
go_to_main_menu_state_kept(S) ==
  update_or_send_interface_message(S, Screen("welcome"))

go_to_main_menu(S) ==
  set_state(update_or_send_interface_message(S, Screen("welcome")), "MAIN_MENU")

(***************************************************************************)
(* The listing store (posts_collection)                                    *)
(***************************************************************************)
\* The identity taken from the number of stored listings, not from the
\* store's generator.
add_post_to_db_id_from_count(ps, id, post_data) ==
  [i \in DOMAIN ps \cup {Cardinality(DOMAIN ps) + 1} |->
     IF i = Cardinality(DOMAIN ps) + 1 THEN post_data ELSE ps[i]]

add_post_to_db(ps, id, post_data) ==
  [i \in DOMAIN ps \cup {id} |-> IF i = id THEN post_data ELSE ps[i]]

MaxCreated(ps, ids) ==
  CHOOSE m \in {ps[i].created_at : i \in ids} :
    \A i \in ids : ps[i].created_at <= m

\* find().sort("created_at", -1): every order of the ids in `ids` that is
\* descending in created_at; the order of listings of equal created_at is
\* the store's choice.
RECURSIVE SortedByCreatedDesc(_, _)
SortedByCreatedDesc(ps, ids) ==
  IF ids = {} THEN {<<>>}
  ELSE LET tops == {i \in ids : ps[i].created_at = MaxCreated(ps, ids)}
       IN UNION {{<<i>> \o s : s \in SortedByCreatedDesc(ps, ids \ {i})} : i \in tops}

get_posts_from_db(ps) == SortedByCreatedDesc(ps, DOMAIN ps)

\* find_one({"_id": ObjectId(post_id)}) finds a listing.
get_post_by_id_from_db(ps, post_id) == post_id \in DOMAIN ps

\* update_one(...).modified_count > 0: a document matched and was changed.
update_modified(ps, post_id, new_description) ==
  post_id \in DOMAIN ps /\ ps[post_id].description # new_description

update_post_description_in_db(ps, post_id, new_description) ==
  IF post_id \in DOMAIN ps
    THEN [ps EXCEPT ![post_id].description = new_description]
    ELSE ps

\* The delete filter without its user_id: any user's listing matches.
delete_matched_any_user(ps, post_id, user_id) == post_id \in DOMAIN ps

\* delete_one({"_id": ..., "user_id": user_id}).deleted_count > 0
delete_matched(ps, post_id, user_id) ==
  post_id \in DOMAIN ps /\ ps[post_id].user_id = user_id

delete_post_from_db(ps, post_id, user_id) ==
  IF delete_matched(ps, post_id, user_id)
    THEN [i \in DOMAIN ps \ {post_id} |-> ps[i]]
    ELSE ps

can_edit(post, t) == t - post.created_at < EDIT_WINDOW_MINUTES

(***************************************************************************)
(* Pages                                                                   *)
(***************************************************************************)
Min(a, b) == IF a < b THEN a ELSE b

\* s[a : b] for 0 <= a <= b
Slice(s, a, b) == SubSeq(s, a + 1, Min(b, Len(s)))

\* sorted(..., key=created_at, reverse=True): a stable sort, descending.
RECURSIVE InsertDesc(_, _, _)
InsertDesc(ps, s, i) ==
  IF s = <<>> THEN <<i>>
  ELSE IF ps[Head(s)].created_at >= ps[i].created_at
    THEN <<Head(s)>> \o InsertDesc(ps, Tail(s), i)
    ELSE <<i>> \o s

RECURSIVE sorted_desc(_, _)
sorted_desc(ps, s) ==
  IF s = <<>> THEN <<>>
  ELSE InsertDesc(ps, sorted_desc(ps, SubSeq(s, 1, Len(s) - 1)), s[Len(s)])

RECURSIVE Filter(_, _, _, _)
Filter(ps, s, field, value) ==
  IF s = <<>> THEN <<>>
  ELSE IF ps[Head(s)][field] = value
    THEN <<Head(s)>> \o Filter(ps, Tail(s), field, value)
    ELSE Filter(ps, Tail(s), field, value)

SeqRange(s) == {s[i] : i \in 1..Len(s)}

\* The page count by floor division plus one: wrong for full last pages.
total_pages_floor_plus_one(total, per_page) == total \div per_page + 1

total_pages(total, per_page) == (total + per_page - 1) \div per_page

current_page(offset, per_page) == offset \div per_page + 1

\* callback_data of the pagination buttons.
prev_data(offset, per_page) == offset - per_page

\* The 'next' button carrying the offset after the page's first listing.
next_data_plus_one(offset, per_page) == offset + 1

next_data(offset, per_page) == offset + per_page

nav_row_page_footer(offset, per_page, total_posts) ==
  (IF offset > 0 THEN {prev_data(offset, per_page)} ELSE {})
    \cup (IF offset + per_page < total_posts THEN {next_data(offset, per_page)} ELSE {})

\* The page of show_my_posts_page: the listings, an edit control for those
\* can_edit allows, and the pagination controls.
MyPage(ps, t, user_posts, offset) ==
  LET page_posts == Slice(user_posts, offset, offset + MY_POSTS_PER_PAGE)
  IN [kind |-> "my_posts",
      items |-> page_posts,
      edit |-> {i \in SeqRange(page_posts) : can_edit(ps[i], t)},
      prev |-> offset > 0,
      next |-> offset + MY_POSTS_PER_PAGE < Len(user_posts),
      nav |-> nav_row_page_footer(offset, MY_POSTS_PER_PAGE, Len(user_posts)),
      page |-> current_page(offset, MY_POSTS_PER_PAGE),
      pages |-> total_pages(Len(user_posts), MY_POSTS_PER_PAGE)]

show_my_posts_page(S, chat_id, ps, t, all_posts, offset) ==
  LET user_posts == sorted_desc(ps, Filter(ps, all_posts, "user_id", chat_id))
      S1 == update_data(S, "offset", offset)
  IN IF user_posts = <<>>
       THEN update_or_send_interface_message(S1, Screen("no_my_posts"))
       ELSE update_or_send_interface_message(S1, MyPage(ps, t, user_posts, offset))

ViewPage(user_posts, offset) ==
  [kind |-> "view_posts",
   items |-> Slice(user_posts, offset, offset + VIEW_POSTS_PER_PAGE),
   edit |-> {},
   prev |-> offset > 0,
   next |-> offset + VIEW_POSTS_PER_PAGE < Len(user_posts),
   nav |-> nav_row_page_footer(offset, VIEW_POSTS_PER_PAGE, Len(user_posts)),
   page |-> current_page(offset, VIEW_POSTS_PER_PAGE),
   pages |-> total_pages(Len(user_posts), VIEW_POSTS_PER_PAGE)]

show_view_posts_page(S, ps, all_posts, offset) ==
  IF ~Has(S.data, "current_view_category")
    THEN go_to_main_menu(S)
    ELSE LET user_posts ==
               Filter(ps, all_posts, "category", S.data["current_view_category"])
         IN IF user_posts = <<>>
              THEN update_or_send_interface_message(S, Screen("view_empty"))
              ELSE update_or_send_interface_message(
                     update_data(S, "offset", offset), ViewPage(user_posts, offset))

(***************************************************************************)
(* Events                                                                  *)
(*                                                                         *)
(* last is the event handled by the latest step: the handler, the user,    *)
(* the number carried by the callback data (a listing id, an index or an   *)
(* offset), the message text, and the alert shown by call.answer.          *)
(***************************************************************************)
Ev(op, u, arg, text, notice) ==
  [op |-> op, u |-> u, arg |-> arg, text |-> text, notice |-> notice]

FreshSession ==
  [state |-> "NONE", data |-> EmptyDict, sent |-> 0, chat |-> EmptyDict,
   shown |-> Screen("none"), awaiting |-> <<>>, written |-> {}]

\* Texts sent in ADD_DESC and EDIT_DESC.
DescTexts ==
  {<<" ">>, <<" ", "a", " ">>,
   Rep("x", DESC_MAX_LEN), Rep("x", DESC_MAX_LEN + 1)}

\* Texts sent in ADD_CONT.
ContTexts ==
  {<<" ">>, <<"1", "2", "3">>,
   <<"0", "9", "9", "1", "2", "3", "4", "5", "6", "7">>,
   <<" ", "0", "9", "9", "1", "2", "3", "4", "5", "6", "7", "\n">>,
   <<"@", "a", "b", "c", "1", "2">>}

TypeData == {"type_work", "type_service"}

\* Indexes of the category buttons pressed when creating and when browsing.
PostCatIdx == {9}
ViewCatIdx == {0, 9}

\* Offsets carried by pagination callbacks.
Offsets == {0, 5}

\* Listing ids carried by edit_ and delete_ callbacks: the ids of the
\* listings a scenario can hold and one id no listing has.
Pids == 1..MaxPosts
ManagePids == {1, 2, 3}

(***************************************************************************)
(* Handlers                                                                *)
(***************************************************************************)
Tick ==
  /\ now + TickMinutes <= MaxNow
  /\ now' = now + TickMinutes
  /\ last' = Ev("tick", 0, 0, <<>>, "")
  /\ UNCHANGED <<posts, nextId, sess>>

on_start(u) ==
  LET S == sess[u] IN
  /\ sess' = [sess EXCEPT ![u] =
       go_to_main_menu([S EXCEPT !.data = PutNone(S.data, "last_bot_message_id")])]
  /\ last' = Ev("on_start", u, 0, <<>>, "")
  /\ UNCHANGED <<now, posts, nextId>>

on_back_to_main(u) ==
  /\ sess' = [sess EXCEPT ![u] = go_to_main_menu(sess[u])]
  /\ last' = Ev("on_back_to_main", u, 0, <<>>, "")
  /\ UNCHANGED <<now, posts, nextId>>

\* 'Back' treated as 'main menu' in every state (the final else branch).
on_back_to_prev_step_always_main(u) ==
  /\ sess' = [sess EXCEPT ![u] = go_to_main_menu(sess[u])]
  /\ last' = Ev("on_back_to_prev_step", u, 0, <<>>, "")
  /\ UNCHANGED <<now, posts, nextId>>

on_back_to_prev_step(u) ==
  LET S == sess[u] IN
  /\ \E all_posts \in get_posts_from_db(posts) :
       sess' = [sess EXCEPT ![u] =
         CASE S.state = "ADD_TYPE" -> go_to_main_menu(S)
           [] S.state = "ADD_CAT" ->
                set_state(update_or_send_interface_message(S, Screen("choose_type")), "ADD_TYPE")
           [] S.state = "ADD_DESC" ->
                set_state(update_or_send_interface_message(S, Screen("choose_post_cat")), "ADD_CAT")
           [] S.state = "ADD_CONT" ->
                set_state(update_or_send_interface_message(S, Screen("enter_desc")), "ADD_DESC")
           [] S.state = "ADD_CONFIRM" ->
                set_state(update_or_send_interface_message(S, Screen("enter_cont")), "ADD_CONT")
           [] S.state = "VIEW_CAT" -> go_to_main_menu(S)
           [] S.state = "VIEW_LISTING" ->
                set_state(update_or_send_interface_message(S, Screen("choose_view_cat")), "VIEW_CAT")
           [] S.state = "MY_POSTS_VIEW" -> go_to_main_menu(S)
           [] S.state = "EDIT_DESC" ->
                set_state(show_my_posts_page(S, u, posts, now, all_posts,
                                             Get(S.data, "offset", 0)),
                          "MY_POSTS_VIEW")
           [] OTHER -> go_to_main_menu(S)]
  /\ last' = Ev("on_back_to_prev_step", u, 0, <<>>, "")
  /\ UNCHANGED <<now, posts, nextId>>

add_start(u) ==
  LET S == sess[u] IN
  /\ S.state \in {"MAIN_MENU", "MY_POSTS_VIEW"}
  /\ sess' = [sess EXCEPT ![u] =
       set_state(update_or_send_interface_message(S, Screen("choose_type")), "ADD_TYPE")]
  /\ last' = Ev("add_start", u, 0, <<>>, "")
  /\ UNCHANGED <<now, posts, nextId>>

add_type(u, cb) ==
  LET S == sess[u]
      typ == IF cb = "type_work" THEN "robota" ELSE "posluga"
  IN
  /\ S.state = "ADD_TYPE"
  /\ sess' = [sess EXCEPT ![u] =
       set_state(update_or_send_interface_message(update_data(S, "type", typ),
                                                  Screen("choose_post_cat")),
                 "ADD_CAT")]
  /\ last' = Ev("add_type", u, 0, <<>>, "")
  /\ UNCHANGED <<now, posts, nextId>>

add_cat(u, idx) ==
  LET S == sess[u] IN
  /\ S.state = "ADD_CAT"
  /\ sess' = [sess EXCEPT ![u] =
       set_state(update_or_send_interface_message(
                   update_data(S, "category", CATEGORIES[idx + 1]), Screen("enter_desc")),
                 "ADD_DESC")]
  /\ last' = Ev("add_cat", u, idx, <<>>, "")
  /\ UNCHANGED <<now, posts, nextId>>

add_desc(u, msg_text) ==
  LET S == sess[u]
      text == strip(msg_text)
  IN
  /\ S.state = "ADD_DESC"
  /\ sess' = [sess EXCEPT ![u] =
       IF text = <<>>
         THEN update_or_send_interface_message(S, Screen("desc_empty"))
       ELSE IF too_long(text)
         THEN update_or_send_interface_message(S, Screen("desc_too_long"))
       ELSE set_state(update_or_send_interface_message(update_data(S, "desc", text),
                                                       Screen("enter_cont")),
                      "ADD_CONT")]
  /\ last' = Ev("add_desc", u, 0, msg_text, "")
  /\ UNCHANGED <<now, posts, nextId>>

\* The body of skip_cont, run on the session as the handler finds it when
\* call.answer() has returned.
skip_cont_body(u, S) ==
  /\ sess' = [sess EXCEPT ![u] =
       set_state(update_or_send_interface_message(update_data(S, "cont", <<>>),
                                                  Screen("confirm_summary")),
                 "ADD_CONFIRM")]
  /\ last' = Ev("skip_cont", u, 0, <<>>, "")
  /\ UNCHANGED <<now, posts, nextId>>

skip_cont(u) ==
  /\ sess[u].state = "ADD_CONT"
  /\ skip_cont_body(u, sess[u])

\* The dispatcher has matched a 'skip_cont' callback against the state
\* filter of skip_cont and the handler waits in call.answer().
skip_cont_matched(u) ==
  LET S == sess[u] IN
  /\ S.state = "ADD_CONT"
  /\ Len(S.awaiting) < MaxInFlight
  /\ sess' = [sess EXCEPT ![u].awaiting = Append(S.awaiting, "skip_cont")]
  /\ last' = Ev("skip_cont_matched", u, 0, <<>>, "")
  /\ UNCHANGED <<now, posts, nextId>>

\* call.answer() has returned to a waiting skip_cont, which runs on.
skip_cont_resumed(u) ==
  LET S == sess[u] IN
  /\ S.awaiting # <<>>
  /\ Head(S.awaiting) = "skip_cont"
  /\ skip_cont_body(u, [S EXCEPT !.awaiting = Tail(S.awaiting)])

add_cont(u, msg_text) ==
  LET S == sess[u]
      text == strip(msg_text)
  IN
  /\ S.state = "ADD_CONT"
  /\ sess' = [sess EXCEPT ![u] =
       IF text = <<>>
         THEN update_or_send_interface_message(S, Screen("cont_empty"))
       ELSE IF ~phone_pattern(text)
         THEN update_or_send_interface_message(S, Screen("cont_bad_format"))
       ELSE set_state(update_or_send_interface_message(update_data(S, "cont", text),
                                                       Screen("confirm_summary")),
                      "ADD_CONFIRM")]
  /\ last' = Ev("add_cont", u, 0, msg_text, "")
  /\ UNCHANGED <<now, posts, nextId>>

\* The document built without the draft's contact.
post_data_without_contact(u, d, contact_info, t) ==
  [user_id |-> u, type |-> d["type"], category |-> d["category"],
   description |-> d["desc"], contacts |-> <<>>, created_at |-> t]

\* The document add_confirm inserts (username, shown only, is left out).
post_data(u, d, contact_info, t) ==
  [user_id |-> u, type |-> d["type"], category |-> d["category"],
   description |-> d["desc"], contacts |-> contact_info, created_at |-> t]

\* The body of add_confirm, run on the session as the handler finds it when
\* call.answer() has returned; at most cap listings are ever inserted.
add_confirm_body(u, S, cap) ==
  LET contact_info == Get(S.data, "cont", <<>>)
      ps == add_post_to_db(posts, nextId, post_data(u, S.data, contact_info, now))
  IN
  /\ nextId <= cap
  /\ IF contact_info # <<>> /\ ~phone_pattern(contact_info)
       THEN /\ sess' = [sess EXCEPT ![u] =
                 set_state(update_or_send_interface_message(S, Screen("contact_error")),
                           "MAIN_MENU")]
            /\ UNCHANGED <<posts, nextId>>
       ELSE /\ posts' = ps
            /\ nextId' = nextId + 1
            /\ \E all_posts \in get_posts_from_db(ps) :
                 sess' = [sess EXCEPT ![u] =
                   set_state(show_my_posts_page(
                               update_or_send_interface_message(S, Screen("added")),
                               u, ps, now, all_posts, 0),
                             "MY_POSTS_VIEW")]
  /\ last' = Ev("add_confirm", u, nextId, <<>>, "")
  /\ UNCHANGED now

\* add_confirm with nothing else running between the match of its state
\* filter and its last statement.
add_confirm(u) ==
  /\ sess[u].state = "ADD_CONFIRM"
  /\ add_confirm_body(u, sess[u], MaxPosts)

\* The dispatcher has matched a 'confirm_add_post' callback against the
\* state filter of add_confirm and the handler waits in call.answer().
add_confirm_matched(u) ==
  LET S == sess[u] IN
  /\ S.state = "ADD_CONFIRM"
  /\ Len(S.awaiting) < MaxInFlight
  /\ sess' = [sess EXCEPT ![u].awaiting = Append(S.awaiting, "add_confirm")]
  /\ last' = Ev("add_confirm_matched", u, 0, <<>>, "")
  /\ UNCHANGED <<now, posts, nextId>>

\* call.answer() has returned to a waiting add_confirm, which runs on.
add_confirm_resumed(u) ==
  LET S == sess[u] IN
  /\ S.awaiting # <<>>
  /\ Head(S.awaiting) = "add_confirm"
  /\ add_confirm_body(u, [S EXCEPT !.awaiting = Tail(S.awaiting)], MaxConfirmed)

view_start(u) ==
  LET S == sess[u] IN
  /\ S.state = "MAIN_MENU"
  /\ sess' = [sess EXCEPT ![u] =
       set_state(update_or_send_interface_message(S, Screen("choose_view_cat")), "VIEW_CAT")]
  /\ last' = Ev("view_start", u, 0, <<>>, "")
  /\ UNCHANGED <<now, posts, nextId>>

view_cat(u, idx) ==
  LET S == sess[u]
      S1 == update_data(update_data(S, "current_view_category", CATEGORIES[idx + 1]),
                        "current_category_idx", idx)
  IN
  /\ S.state = "VIEW_CAT"
  /\ \E all_posts \in get_posts_from_db(posts) :
       sess' = [sess EXCEPT ![u] =
         set_state(show_view_posts_page(S1, posts, all_posts, 0), "VIEW_LISTING")]
  /\ last' = Ev("view_cat", u, idx, <<>>, "")
  /\ UNCHANGED <<now, posts, nextId>>

view_paginate(u, offset) ==
  LET S == sess[u] IN
  /\ S.state = "VIEW_LISTING"
  /\ \E all_posts \in get_posts_from_db(posts) :
       sess' = [sess EXCEPT ![u] = show_view_posts_page(S, posts, all_posts, offset)]
  /\ last' = Ev("view_paginate", u, offset, <<>>, "")
  /\ UNCHANGED <<now, posts, nextId>>

my_posts_start(u) ==
  LET S == sess[u] IN
  /\ S.state = "MAIN_MENU"
  /\ \E all_posts \in get_posts_from_db(posts) :
       sess' = [sess EXCEPT ![u] =
         set_state(show_my_posts_page(S, u, posts, now, all_posts, 0), "MY_POSTS_VIEW")]
  /\ last' = Ev("my_posts_start", u, 0, <<>>, "")
  /\ UNCHANGED <<now, posts, nextId>>

my_posts_paginate(u, offset) ==
  LET S == sess[u] IN
  /\ S.state = "MY_POSTS_VIEW"
  /\ \E all_posts \in get_posts_from_db(posts) :
       sess' = [sess EXCEPT ![u] = show_my_posts_page(S, u, posts, now, all_posts, offset)]
  /\ last' = Ev("my_posts_paginate", u, offset, <<>>, "")
  /\ UNCHANGED <<now, posts, nextId>>

edit_start(u, pid) ==
  LET S == sess[u] IN
  /\ S.state = "MY_POSTS_VIEW"
  /\ IF ~get_post_by_id_from_db(posts, pid) \/ ~can_edit(posts[pid], now)
       THEN /\ sess' = sess
            /\ last' = Ev("edit_start", u, pid, <<>>, "edit_time_expired")
       ELSE /\ sess' = [sess EXCEPT ![u] =
                 set_state(update_or_send_interface_message(
                             update_data(S, "edit_pid", pid), Screen("enter_new_desc")),
                           "EDIT_DESC")]
            /\ last' = Ev("edit_start", u, pid, <<>>, "")
  /\ UNCHANGED <<now, posts, nextId>>

process_edit(u, msg_text) ==
  LET S == sess[u]
      text == strip(msg_text)
      pid == S.data["edit_pid"]
      ps == update_post_description_in_db(posts, pid, text)
  IN
  /\ S.state = "EDIT_DESC"
  /\ IF text = <<>> \/ too_long(text)
       THEN /\ sess' = [sess EXCEPT ![u] =
                 update_or_send_interface_message(S, Screen("edit_bad_desc"))]
            /\ posts' = posts
       ELSE /\ posts' = ps
            /\ IF update_modified(posts, pid, text)
                 THEN \E all_posts \in get_posts_from_db(ps) :
                        sess' = [sess EXCEPT ![u] =
                          set_state(show_my_posts_page(
                                      update_or_send_interface_message(S, Screen("edited")),
                                      u, ps, now, all_posts, Get(S.data, "offset", 0)),
                                    "MY_POSTS_VIEW")]
                 ELSE sess' = [sess EXCEPT ![u] =
                        set_state(update_or_send_interface_message(S, Screen("edit_error")),
                                  "MAIN_MENU")]
  /\ last' = Ev("process_edit", u, 0, msg_text, "")
  /\ UNCHANGED <<now, nextId>>

\* The offset delete_post_handler shows after a deletion.
new_offset(current_offset, n_user_posts) ==
  IF current_offset >= n_user_posts /\ current_offset > 0
    THEN IF current_offset - MY_POSTS_PER_PAGE > 0
           THEN current_offset - MY_POSTS_PER_PAGE ELSE 0
    ELSE current_offset

delete_post_handler(u, pid) ==
  LET S == sess[u]
      deleted == delete_matched(posts, pid, u)
      ps == delete_post_from_db(posts, pid, u)
      current_offset == Get(S.data, "offset", 0)
      n_after == Cardinality({i \in DOMAIN ps : ps[i].user_id = u})
  IN
  /\ S.state = "MY_POSTS_VIEW"
  /\ posts' = ps
  /\ \E all_posts \in get_posts_from_db(ps) :
       IF ~deleted
         THEN /\ sess' = [sess EXCEPT ![u] =
                   show_my_posts_page(S, u, ps, now, all_posts, current_offset)]
              /\ last' = Ev("delete_post_handler", u, pid, <<>>, "delete_failed")
         ELSE /\ sess' = [sess EXCEPT ![u] =
                   set_state(show_my_posts_page(
                               update_or_send_interface_message(S, Screen("deleted")),
                               u, ps, now, all_posts, new_offset(current_offset, n_after)),
                             "MY_POSTS_VIEW")]
              /\ last' = Ev("delete_post_handler", u, pid, <<>>, "deleted")
  /\ UNCHANGED <<now, nextId>>

\* The callback data some callback_query_handler accepts in a state: the
\* state filters of the handlers.
Accepted(state) ==
  {"go_back_to_main_menu", "go_back_to_prev_step"}
    \cup (IF state \in {"MAIN_MENU", "MY_POSTS_VIEW"} THEN {"add_post"} ELSE {})
    \cup (IF state = "MAIN_MENU" THEN {"view_posts", "my_posts", "help"} ELSE {})
    \cup (IF state = "ADD_TYPE" THEN {"type_"} ELSE {})
    \cup (IF state = "ADD_CAT" THEN {"post_cat_"} ELSE {})
    \cup (IF state = "ADD_CONT" THEN {"skip_cont"} ELSE {})
    \cup (IF state = "ADD_CONFIRM" THEN {"confirm_add_post"} ELSE {})
    \cup (IF state = "VIEW_CAT" THEN {"view_cat_"} ELSE {})
    \cup (IF state = "VIEW_LISTING" THEN {"viewpage_"} ELSE {})
    \cup (IF state = "MY_POSTS_VIEW" THEN {"mypage_", "edit_", "delete_"} ELSE {})

\* The states in which a message_handler other than /start takes a text.
TextStates == {"ADD_DESC", "ADD_CONT", "EDIT_DESC"}

\* The callback data (by prefix) a client can send, and a text message.
CallbackData ==
  {"add_post", "view_posts", "my_posts", "help", "type_", "post_cat_",
   "skip_cont", "confirm_add_post", "view_cat_", "viewpage_", "mypage_",
   "edit_", "delete_"}

\* An update that matches the filters of no handler: the dispatcher drops
\* it, no handler runs and the callback is not answered.
unhandled(u, data) ==
  /\ IF data = "text"
       THEN sess[u].state \notin TextStates
       ELSE data \notin Accepted(sess[u].state)
  /\ last' = Ev("unhandled", u, 0, <<>>, data)
  /\ UNCHANGED <<now, posts, nextId, sess>>

\* help_handler registered without its state filter.
help_handler_any_state(u) ==
  LET S == sess[u] IN
  /\ sess' = [sess EXCEPT ![u] =
       set_state(update_or_send_interface_message(S, Screen("help")), "MAIN_MENU")]
  /\ last' = Ev("help_handler", u, 0, <<>>, "")
  /\ UNCHANGED <<now, posts, nextId>>

help_handler(u) ==
  LET S == sess[u] IN
  /\ S.state = "MAIN_MENU"
  /\ sess' = [sess EXCEPT ![u] =
       set_state(update_or_send_interface_message(S, Screen("help")), "MAIN_MENU")]
  /\ last' = Ev("help_handler", u, 0, <<>>, "")
  /\ UNCHANGED <<now, posts, nextId>>

\* add_confirm when insert_one raises: add_post_to_db returns None.
add_confirm_store_error(u) ==
  LET S == sess[u]
      contact_info == Get(S.data, "cont", <<>>)
  IN
  /\ S.state = "ADD_CONFIRM"
  /\ contact_info = <<>> \/ phone_pattern(contact_info)
  /\ sess' = [sess EXCEPT ![u] =
       set_state(update_or_send_interface_message(S, Screen("add_error")), "MAIN_MENU")]
  /\ last' = Ev("add_confirm_store_error", u, 0, <<>>, "")
  /\ UNCHANGED <<now, posts, nextId>>

\* process_edit when update_one raises: update_post_description_in_db
\* returns False.
process_edit_store_error(u, msg_text) ==
  LET S == sess[u]
      text == strip(msg_text)
  IN
  /\ S.state = "EDIT_DESC"
  /\ text # <<>> /\ ~too_long(text)
  /\ sess' = [sess EXCEPT ![u] =
       set_state(update_or_send_interface_message(S, Screen("edit_error")), "MAIN_MENU")]
  /\ last' = Ev("process_edit_store_error", u, 0, msg_text, "")
  /\ UNCHANGED <<now, posts, nextId>>

\* delete_post_handler when delete_one raises: delete_post_from_db returns
\* False; the find() of the page that follows answers or raises as well
\* (get_posts_from_db then returns []).
delete_post_handler_store_error(u, pid) ==
  LET S == sess[u] IN
  /\ S.state = "MY_POSTS_VIEW"
  /\ \E all_posts \in get_posts_from_db(posts) \cup {<<>>} :
       sess' = [sess EXCEPT ![u] =
         show_my_posts_page(S, u, posts, now, all_posts, Get(S.data, "offset", 0))]
  /\ last' = Ev("delete_post_handler_store_error", u, pid, <<>>, "delete_failed")
  /\ UNCHANGED <<now, posts, nextId>>

\* The user deletes message mid of the bot from the chat (Telegram lets a
\* user delete any message of a private chat); the bot is not told.
delete_message(u, mid) ==
  /\ mid \in DOMAIN sess[u].chat
  /\ sess' = [sess EXCEPT ![u].chat = [m \in DOMAIN sess[u].chat \ {mid} |-> sess[u].chat[m]]]
  /\ last' = Ev("delete_message", u, mid, <<>>, "")
  /\ UNCHANGED <<now, posts, nextId>>

\* The exceptions a handler lets through: the class err_handler tests with
\* isinstance and the text it searches in str(exception).
Exceptions ==
  {[cls |-> "BadRequest", text |-> "Can't parse entities"],
   [cls |-> "BadRequest", text |-> "Text must be non-empty"],
   [cls |-> "TelegramAPIError", text |-> "NetworkError"],
   [cls |-> "IndexError", text |-> "list index out of range"]}

\* err_handler: the session after the top-level handler has dealt with an
\* exception of an update of this chat.
err_handler(S, exception) ==
  IF exception.cls \in {"BadRequest", "TelegramAPIError"}
    THEN IF exception.text = "Can't parse entities"
           THEN set_state(update_or_send_interface_message(S, Screen("error_parse")),
                          "MAIN_MENU")
         ELSE IF exception.text = "Text must be non-empty"
           THEN set_state(update_or_send_interface_message(S, Screen("error_internal")),
                          "MAIN_MENU")
         ELSE S
    ELSE S

\* add_cat with callback data post_cat_<idx> whose index is outside
\* CATEGORIES: CATEGORIES[idx] raises IndexError before anything is done.
add_cat_index_error(u, idx) ==
  LET S == sess[u] IN
  /\ S.state = "ADD_CAT"
  /\ idx \notin 0..(Len(CATEGORIES) - 1)
  /\ sess' = [sess EXCEPT ![u] =
       err_handler(S, [cls |-> "IndexError", text |-> "list index out of range"])]
  /\ last' = Ev("err_handler", u, idx, <<>>, "IndexError")
  /\ UNCHANGED <<now, posts, nextId>>

\* on_back_to_main when Telegram refuses the welcome message: the edit (if
\* an id is recorded) and the send after it raise, nothing is recorded and
\* the exception leaves the handler before set_state.
on_back_to_main_send_error(u, exception) ==
  LET S == sess[u] IN
  /\ exception.cls \in {"BadRequest", "TelegramAPIError"}
  /\ sess' = [sess EXCEPT ![u] = err_handler(S, exception)]
  /\ last' = Ev("err_handler", u, 0, <<>>, exception.cls)
  /\ UNCHANGED <<now, posts, nextId>>

\* The process stops and is started again: MemoryStorage, a dictionary of
\* the process, starts empty and the tasks of the event loop are gone; the
\* posts collection and the messages of the chats are kept by MongoDB and
\* by Telegram.
restart ==
  /\ sess' = [u \in Users |->
       [sess[u] EXCEPT !.state = "NONE", !.data = EmptyDict, !.awaiting = <<>>,
                       !.written = {}]]
  /\ last' = Ev("restart", 0, 0, <<>>, "")
  /\ UNCHANGED <<now, posts, nextId>>

\* A day passes on the clock datetime.utcnow() reads.
DayMinutes == 24 * 60

DayPasses ==
  /\ now + DayMinutes <= MaxDays * DayMinutes
  /\ now' = now + DayMinutes
  /\ last' = Ev("day", 0, 0, <<>>, "")
  /\ UNCHANGED <<posts, nextId, sess>>

\* show_my_posts_page when the render of the page raises (Telegram refuses
\* the edit and the send after it): the except branch renders the apology
\* with main_kb() and sets MAIN_MENU.  The offset was stored before.
show_my_posts_page_error(S, offset) ==
  set_state(update_or_send_interface_message(update_data(S, "offset", offset),
                                             Screen("my_posts_error")),
            "MAIN_MENU")

\* show_view_posts_page when the render of a page with listings raises.
show_view_posts_page_error(S, offset) ==
  set_state(update_or_send_interface_message(update_data(S, "offset", offset),
                                             Screen("view_posts_error")),
            "MAIN_MENU")

my_posts_start_page_error(u) ==
  LET S == sess[u] IN
  /\ S.state = "MAIN_MENU"
  /\ sess' = [sess EXCEPT ![u] =
       set_state(show_my_posts_page_error(S, 0), "MY_POSTS_VIEW")]
  /\ last' = Ev("my_posts_start_page_error", u, 0, <<>>, "page_error")
  /\ UNCHANGED <<now, posts, nextId>>

my_posts_paginate_page_error(u, offset) ==
  LET S == sess[u] IN
  /\ S.state = "MY_POSTS_VIEW"
  /\ sess' = [sess EXCEPT ![u] = show_my_posts_page_error(S, offset)]
  /\ last' = Ev("my_posts_paginate_page_error", u, offset, <<>>, "page_error")
  /\ UNCHANGED <<now, posts, nextId>>

view_cat_page_error(u, idx) ==
  LET S == sess[u]
      S1 == update_data(update_data(S, "current_view_category", CATEGORIES[idx + 1]),
                        "current_category_idx", idx)
  IN
  /\ S.state = "VIEW_CAT"
  /\ \E p \in DOMAIN posts : posts[p].category = CATEGORIES[idx + 1]
  /\ sess' = [sess EXCEPT ![u] =
       set_state(show_view_posts_page_error(S1, 0), "VIEW_LISTING")]
  /\ last' = Ev("view_cat_page_error", u, idx, <<>>, "page_error")
  /\ UNCHANGED <<now, posts, nextId>>

view_paginate_page_error(u, offset) ==
  LET S == sess[u] IN
  /\ S.state = "VIEW_LISTING"
  /\ \E p \in DOMAIN posts : posts[p].category = Get(S.data, "current_view_category", "")
  /\ sess' = [sess EXCEPT ![u] = show_view_posts_page_error(S, offset)]
  /\ last' = Ev("view_paginate_page_error", u, offset, <<>>, "page_error")
  /\ UNCHANGED <<now, posts, nextId>>

\* 'Back' pressed in EDIT_DESC when the render of the my-listings page
\* raises.
on_back_to_prev_step_page_error(u) ==
  LET S == sess[u] IN
  /\ S.state = "EDIT_DESC"
  /\ sess' = [sess EXCEPT ![u] =
       set_state(show_my_posts_page_error(S, Get(S.data, "offset", 0)), "MY_POSTS_VIEW")]
  /\ last' = Ev("on_back_to_prev_step_page_error", u, 0, <<>>, "page_error")
  /\ UNCHANGED <<now, posts, nextId>>

(***************************************************************************)
(* The program                                                             *)
(*                                                                         *)
(* The store outlives the process and the FSM storage does not, so a run   *)
(* starts with fresh sessions over a store that may hold listings.  Each   *)
(* specification below is the program on one scenario: the store it starts *)
(* with, the users who send events, and the events they send.  In the      *)
(* scenarios about listings a user sends /start once, as the first event;  *)
(* /start in the middle of a flow is part of the navigation scenario.      *)
(***************************************************************************)
Sessions0 == [u \in Users |-> FreshSession]

\* Creation scenario: user 1 on an empty store creates listings and edits
\* their descriptions.
Init ==
  /\ now = 0
  /\ posts = EmptyDict
  /\ nextId = 1
  /\ sess = Sessions0
  /\ last = Ev("init", 0, 0, <<>>, "")

Next ==
  \E u \in {1} :
    \/ sess[u].sent = 0 /\ on_start(u)
    \/ on_back_to_main(u)
    \/ on_back_to_prev_step(u)
    \/ add_start(u)
    \/ \E cb \in TypeData : add_type(u, cb)
    \/ \E idx \in PostCatIdx : add_cat(u, idx)
    \/ \E text \in DescTexts : add_desc(u, text)
    \/ skip_cont(u)
    \/ \E text \in ContTexts : add_cont(u, text)
    \/ add_confirm(u)
    \/ \E pid \in Pids : edit_start(u, pid)
    \/ \E text \in DescTexts : process_edit(u, text)

Spec == Init /\ [][Next]_vars

\* Management scenario: the store holds one listing of user 1 and one of
\* user 2, both created at minute 0; both users open their listings, edit
\* and delete, while the clock advances.
Listing(owner, created) ==
  [user_id |-> owner, type |-> "robota", category |-> CATEGORIES[10],
   description |-> <<"a">>, contacts |-> <<>>, created_at |-> created]

InitManage ==
  /\ now = 0
  /\ posts = [i \in {1, 2} |-> Listing(i, 0)]
  /\ nextId = 3
  /\ sess = Sessions0
  /\ last = Ev("init", 0, 0, <<>>, "")

NextManage ==
  \/ Tick
  \/ \E u \in Users :
       \/ sess[u].sent = 0 /\ on_start(u)
       \/ on_back_to_main(u)
       \/ on_back_to_prev_step(u)
       \/ my_posts_start(u)
       \/ \E offset \in Offsets : my_posts_paginate(u, offset)
       \/ \E pid \in ManagePids : edit_start(u, pid)
       \/ \E text \in DescTexts : process_edit(u, text)
       \/ \E pid \in ManagePids : delete_post_handler(u, pid)

SpecManage == InitManage /\ [][NextManage]_vars

\* Paging scenario: the store holds n listings of user 1 in the last
\* category, created at minutes 1..n, and one older listing of user 2 in
\* the first category; user 1 pages through their listings and browses.
PageListing(owner, idx, created) ==
  [user_id |-> owner, type |-> "posluga", category |-> CATEGORIES[idx + 1],
   description |-> <<"a">>, contacts |-> <<>>, created_at |-> created]

PageOffsets == {k * MY_POSTS_PER_PAGE : k \in 0..3}

InitPages ==
  \E n \in 1..MaxTotal :
    /\ now = n
    /\ posts = [i \in 1..(n + 1) |->
                  IF i <= n THEN PageListing(1, 9, i) ELSE PageListing(2, 0, 0)]
    /\ nextId = n + 2
    /\ sess = Sessions0
    /\ last = Ev("init", 0, 0, <<>>, "")

NextPages ==
  \E u \in {1} :
    \/ sess[u].sent = 0 /\ on_start(u)
    \/ on_back_to_main(u)
    \/ on_back_to_prev_step(u)
    \/ view_start(u)
    \/ \E idx \in ViewCatIdx : view_cat(u, idx)
    \/ \E offset \in PageOffsets : view_paginate(u, offset)
    \/ my_posts_start(u)
    \/ \E offset \in PageOffsets : my_posts_paginate(u, offset)
    \/ help_handler(u)

SpecPages == InitPages /\ [][NextPages]_vars

\* Shared scenario: the store holds MaxOwned listings of user 1 in the last
\* category, the two oldest created in the same minute and the newest one
\* still inside its edit window; user 1 manages them while user 2 browses
\* the category.  Every callback is one a button of a message in the
\* user's chat carries.
OwnedCreated(i) == IF i = 1 THEN 1 ELSE i - 1

InitShared ==
  /\ now = MaxOwned + EDIT_WINDOW_MINUTES - 2
  /\ posts = [i \in 1..MaxOwned |-> PageListing(1, 9, OwnedCreated(i))]
  /\ nextId = MaxOwned + 1
  /\ sess = Sessions0
  /\ last = Ev("init", 0, 0, <<>>, "")

\* The screens of the messages the chat of user u shows.
Visible(u) == {sess[u].chat[mid] : mid \in DOMAIN sess[u].chat}

NextShared ==
  \/ \E u \in Users :
       \/ sess[u].sent = 0 /\ on_start(u)
       \/ on_back_to_main(u)
       \/ on_back_to_prev_step(u)
  \/ \E u \in {2} :
       \/ view_start(u)
       \/ \E idx \in {9} : view_cat(u, idx)
       \/ \E m \in Visible(u) : \E offset \in m.nav :
            m.kind = "view_posts" /\ view_paginate(u, offset)
  \/ \E u \in {1} :
       \/ my_posts_start(u)
       \/ \E m \in Visible(u) : \E offset \in m.nav :
            m.kind = "my_posts" /\ my_posts_paginate(u, offset)
       \/ \E m \in Visible(u) : \E pid \in m.edit : edit_start(u, pid)
       \/ \E text \in DescTexts : process_edit(u, text)
       \/ \E m \in Visible(u) : \E pid \in SeqRange(m.items) :
            m.kind = "my_posts" /\ delete_post_handler(u, pid)

SpecShared == InitShared /\ [][NextShared]_vars

\* Navigation scenario: over the store of the management scenario user 1
\* walks through every state of the conversation, sends /start at any
\* moment and uses both 'back' buttons everywhere; nothing is written to
\* the store and every Telegram call succeeds.
NextNav ==
  \E u \in {1} :
    \/ sess[u].sent < MaxMsgs /\ on_start(u)
    \/ on_back_to_main(u)
    \/ on_back_to_prev_step(u)
    \/ add_start(u)
    \/ \E cb \in TypeData : add_type(u, cb)
    \/ \E idx \in PostCatIdx : add_cat(u, idx)
    \/ \E text \in DescTexts : add_desc(u, text)
    \/ skip_cont(u)
    \/ view_start(u)
    \/ \E idx \in ViewCatIdx : view_cat(u, idx)
    \/ my_posts_start(u)
    \/ \E offset \in Offsets : my_posts_paginate(u, offset)
    \/ \E pid \in {1} : edit_start(u, pid)
    \/ help_handler(u)

SpecNav == InitManage /\ [][NextNav]_vars

\* Rendering scenario: the navigation scenario in which the user also
\* deletes messages of the bot, so that edits of the recorded message fail.
NextRender ==
  \/ NextNav
  \/ \E u \in {1} : \E mid \in DOMAIN sess[u].chat :
       sess[u].sent < MaxMsgs /\ delete_message(u, mid)

SpecRender == InitManage /\ [][NextRender]_vars

\* Store-failure scenario: the navigation scenario in which every write to
\* the store raises.
NextStoreDown ==
  \/ NextNav
  \/ \E u \in {1} :
       \/ add_confirm_store_error(u)
       \/ \E text \in DescTexts : process_edit_store_error(u, text)
       \/ \E pid \in {1} : delete_post_handler_store_error(u, pid)

SpecStoreDown == InitManage /\ [][NextStoreDown]_vars

\* Stale-callback scenario: the store of the shared scenario; user 1 sends
\* pagination and delete callbacks that no button on screen carries (a
\* button of an older message, or data the client made up).
StaleOffsets == {0, MY_POSTS_PER_PAGE, 2 * MY_POSTS_PER_PAGE}

NextStale ==
  \E u \in {1} :
    \/ sess[u].sent = 0 /\ on_start(u)
    \/ on_back_to_main(u)
    \/ my_posts_start(u)
    \/ \E offset \in StaleOffsets : my_posts_paginate(u, offset)
    \/ \E pid \in 1..(MaxOwned + 1) : delete_post_handler(u, pid)

SpecStale == InitShared /\ [][NextStale]_vars

\* Failure scenario: the navigation scenario in which a handler may raise
\* an exception it does not catch, which the dispatcher hands to
\* err_handler.
BadCatIdx == {Len(CATEGORIES)}

NextErrors ==
  \/ NextNav
  \/ \E u \in {1} :
       \/ \E idx \in BadCatIdx : add_cat_index_error(u, idx)
       \/ \E exception \in Exceptions : on_back_to_main_send_error(u, exception)

SpecErrors == InitManage /\ [][NextErrors]_vars

\* Concurrency scenario: both users create listings on an empty store and
\* delete listings their page shows.  The
\* dispatcher starts the handler of every polled update as a task of the
\* event loop, so a 'confirm' callback is matched against the session's
\* state while an earlier add_confirm of the same session still waits.
ConcurrentDesc == {<<" ", "a", " ">>}

NextConcurrent ==
  \E u \in Users :
    \/ sess[u].sent = 0 /\ on_start(u)
    \/ add_start(u)
    \/ \E cb \in {"type_work"} : add_type(u, cb)
    \/ \E idx \in PostCatIdx : add_cat(u, idx)
    \/ \E text \in ConcurrentDesc : add_desc(u, text)
    \/ skip_cont(u)
    \/ add_confirm_matched(u)
    \/ add_confirm_resumed(u)
    \/ \E m \in Visible(u) : \E pid \in SeqRange(m.items) :
         m.kind = "my_posts" /\ delete_post_handler(u, pid)

SpecConcurrent == Init /\ [][NextConcurrent]_vars

\* Restart scenario: the navigation scenario in which the process is
\* restarted at any moment before MaxMsgs messages were sent.
NextRestart ==
  \/ NextNav
  \/ (\A u \in Users : sess[u].sent < MaxMsgs) /\ restart

SpecRestart == InitManage /\ [][NextRestart]_vars

\* Retention scenario: the store of the management scenario while days
\* pass; both users browse, open their listings and delete them.  These
\* handlers and the other handlers of the dispatcher are everything the
\* process runs: executor.start_polling is given no on_startup task and
\* the file creates no other task, timer or TTL index.  Days keep passing
\* (weak fairness on DayPasses); no user is obliged to do anything.
NextRetention ==
  \/ DayPasses
  \/ \E u \in Users :
       \/ sess[u].sent = 0 /\ on_start(u)
       \/ on_back_to_main(u)
       \/ view_start(u)
       \/ \E idx \in {9} : view_cat(u, idx)
       \/ my_posts_start(u)
       \/ \E pid \in {1, 2} : delete_post_handler(u, pid)

SpecRetention == InitManage /\ [][NextRetention]_vars /\ WF_vars(DayPasses)

\* Page-failure scenario: the navigation scenario in which the render of a
\* listings page may raise inside show_my_posts_page and
\* show_view_posts_page.
NextPageError ==
  \/ NextNav
  \/ \E u \in {1} :
       \/ my_posts_start_page_error(u)
       \/ \E offset \in Offsets : my_posts_paginate_page_error(u, offset)
       \/ \E idx \in ViewCatIdx : view_cat_page_error(u, idx)
       \/ \E offset \in Offsets : view_paginate_page_error(u, offset)
       \/ on_back_to_prev_step_page_error(u)

SpecPageError == InitManage /\ [][NextPageError]_vars

\* Draft scenario: user 1 fills a draft on an empty store and goes back
\* through the steps while a 'skip_cont' handler of the session still
\* waits in call.answer().
NextDraft ==
  \E u \in {1} :
    \/ sess[u].sent = 0 /\ on_start(u)
    \/ sess[u].sent > 0 /\ on_back_to_prev_step(u)
    \/ add_start(u)
    \/ \E cb \in TypeData : add_type(u, cb)
    \/ \E idx \in PostCatIdx : add_cat(u, idx)
    \/ \E text \in DescTexts : add_desc(u, text)
    \/ \E text \in ContTexts : add_cont(u, text)
    \/ skip_cont_matched(u)
    \/ skip_cont_resumed(u)
    \/ add_confirm(u)

SpecDraft == Init /\ [][NextDraft]_vars

\* Unexpected-event scenario: over the store of the management scenario
\* user 1 walks through every state and, in every state, also sends the
\* callback data and texts that the state's screen does not offer (buttons
\* of older messages, data the client made up, stray texts).
UnexpectedDesc == {<<" ", "a", " ">>}

NextUnexpected ==
  \E u \in {1} :
    \/ sess[u].sent = 0 /\ on_start(u)
    \/ on_back_to_main(u)
    \/ on_back_to_prev_step(u)
    \/ add_start(u)
    \/ \E cb \in {"type_work"} : add_type(u, cb)
    \/ \E idx \in PostCatIdx : add_cat(u, idx)
    \/ \E text \in UnexpectedDesc : add_desc(u, text)
    \/ skip_cont(u)
    \/ view_start(u)
    \/ \E idx \in {9} : view_cat(u, idx)
    \/ \E offset \in {0} : view_paginate(u, offset)
    \/ my_posts_start(u)
    \/ \E offset \in {0} : my_posts_paginate(u, offset)
    \/ \E pid \in {1} : edit_start(u, pid)
    \/ help_handler(u)
    \/ \E data \in CallbackData \cup {"text"} : unhandled(u, data)

SpecUnexpected == InitManage /\ [][NextUnexpected]_vars

\* Edit-target scenario: the store of the shared scenario; user 1 sends
\* /start at any moment, pages through their listings and browses the
\* category, and presses only buttons that a message in the chat carries,
\* the messages an earlier /start left behind included.
NextEditTarget ==
  \E u \in {1} :
    \/ sess[u].sent < MaxMsgs /\ on_start(u)
    \/ on_back_to_main(u)
    \/ on_back_to_prev_step(u)
    \/ view_start(u)
    \/ \E idx \in {9} : view_cat(u, idx)
    \/ \E m \in Visible(u) : \E offset \in m.nav :
         m.kind = "view_posts" /\ view_paginate(u, offset)
    \/ my_posts_start(u)
    \/ \E m \in Visible(u) : \E offset \in m.nav :
         m.kind = "my_posts" /\ my_posts_paginate(u, offset)
    \/ \E m \in Visible(u) : \E pid \in m.edit : edit_start(u, pid)
    \/ \E text \in DescTexts : process_edit(u, text)

SpecEditTarget == InitShared /\ [][NextEditTarget]_vars

(***************************************************************************)
(* Properties                                                              *)
(*                                                                         *)
(* A step that handles an event sets last to that event, so a property of  *)
(* one handler is a property of the steps whose last' names it: unprimed   *)
(* variables are the state the event arrived in, primed ones the state the *)
(* handler left.  The properties state lengths, patterns and time limits   *)
(* with their own definitions, not with the operators of the handlers.     *)
(***************************************************************************)
\* The text without its leading and trailing whitespace.
Trimmed(s) ==
  LET n == Len(s)
      blank(i) == s[i] \in {" ", "\t", "\n"}
      first == IF ~blank(1) THEN 1
               ELSE CHOOSE a \in 1..n : ~blank(a) /\ \A i \in 1..(a - 1) : blank(i)
      final == IF ~blank(n) THEN n
               ELSE CHOOSE b \in 1..n : ~blank(b) /\ \A i \in (b + 1)..n : blank(i)
  IN IF \A i \in 1..n : blank(i) THEN <<>> ELSE SubSeq(s, first, final)

\* A valid description: 1 to 300 characters.
DescOk(t) == Len(t) >= 1 /\ Len(t) <= 300

\* 0 + 9 digits, +380 + 9 digits, or @ + 5-32 alphanumeric/underscore.
ContactOk(c) ==
  \/ /\ Len(c) = 1 + 9
     /\ c[1] = "0"
     /\ \A i \in 2..Len(c) : c[i] \in Digits
  \/ /\ Len(c) = 4 + 9
     /\ <<c[1], c[2], c[3], c[4]>> = <<"+", "3", "8", "0">>
     /\ \A i \in 5..Len(c) : c[i] \in Digits
  \/ /\ Len(c) - 1 >= 5
     /\ Len(c) - 1 <= 32
     /\ c[1] = "@"
     /\ \A i \in 2..Len(c) : c[i] \in AsciiLetters \cup Digits \cup {"_"}

\* The draft description is the same, set or unset, in data d and data e.
SameKey(d, e, k) == (Has(d, k) <=> Has(e, k)) /\ (Has(d, k) => d[k] = e[k])

Owns(ps, u, pid) == pid \in DOMAIN ps /\ ps[pid].user_id = u

\* C1: the 'edit' action in MyListings moves the session to EditDescription
\* if and only if the requesting user owns the listing and less than 15
\* minutes have passed since its creation; otherwise the session stays in
\* MyListings and no listing is changed.
C1_EditOnlyByOwnerInWindow ==
  [][last'.op = "edit_start" =>
       LET u == last'.u
           pid == last'.arg
           allowed == Owns(posts, u, pid) /\ now - posts[pid].created_at < 15
       IN /\ (sess'[u].state = "EDIT_DESC") <=> allowed
          /\ ~allowed => sess'[u].state = "MY_POSTS_VIEW"
          /\ posts' = posts]_vars

\* C2: a listing's description is changed only by its owner and only at a
\* moment less than 15 minutes after its creation, and no other field of a
\* listing is ever changed.
C2_DescriptionChangedOnlyByOwnerInWindow ==
  [][\A pid \in DOMAIN posts \cap DOMAIN posts' :
       posts'[pid] # posts[pid] =>
         /\ last'.op = "process_edit"
         /\ last'.u = posts[pid].user_id
         /\ now' - posts[pid].created_at < 15
         /\ [posts'[pid] EXCEPT !.description = posts[pid].description] = posts[pid]]_vars

\* C3: a 'delete' action removes the listing if and only if it exists and
\* the requesting user owns it, and then removes that listing alone; a
\* request of a non-owner or for an id no listing has changes no listing,
\* shows the same failure notice in both cases and leaves the session in
\* MyListings.
C3_DeleteOnlyByOwner ==
  [][last'.op = "delete_post_handler" =>
       LET u == last'.u
           pid == last'.arg
       IN IF Owns(posts, u, pid)
            THEN /\ DOMAIN posts' = DOMAIN posts \ {pid}
                 /\ \A i \in DOMAIN posts' : posts'[i] = posts[i]
                 /\ last'.notice = "deleted"
            ELSE /\ posts' = posts
                 /\ last'.notice = "delete_failed"
                 /\ sess'[u].state = "MY_POSTS_VIEW"]_vars

\* C3 witness: a user asked to delete a listing that exists and belongs to
\* another user, and was refused.
C3_W_NonOwnerRefused ==
  /\ last.op = "delete_post_handler"
  /\ last.notice = "delete_failed"
  /\ last.arg \in DOMAIN posts
  /\ posts[last.arg].user_id # last.u
  /\ sess[last.u].state = "MY_POSTS_VIEW"

\* C4: every listing in the store has a description of trimmed length 1 to
\* 300, a contact that is empty or matches one of the three patterns, one
\* of the 10 categories and one of the two listing types.
C4_StoredListingsValid ==
  \A pid \in DOMAIN posts :
    /\ DescOk(Trimmed(posts[pid].description))
    /\ posts[pid].contacts = <<>> \/ ContactOk(posts[pid].contacts)
    /\ \E i \in 1..10 : posts[pid].category = CATEGORIES[i]
    /\ posts[pid].type \in {"robota", "posluga"}

\* C4 witness: a listing created with a contact has had its description
\* replaced by an edit.
C4_W_CreatedThenEdited ==
  /\ last.op = "process_edit"
  /\ \E pid \in DOMAIN posts :
       /\ posts[pid].contacts # <<>>
       /\ posts[pid].description = Trimmed(last.text)
       /\ Len(posts[pid].description) = 300

\* C5: a text in EnterDescription moves the session to EnterContact with
\* the trimmed text as draft description if and only if the trimmed text
\* has 1 to 300 characters; an empty or over-length text in
\* EnterDescription or EditDescription leaves the state, the draft
\* description and the store as they were and shows an error prompt.
C5_DescriptionValidation ==
  [][/\ last'.op = "add_desc" =>
          LET u == last'.u
              t == Trimmed(last'.text)
          IN IF DescOk(t)
               THEN /\ sess'[u].state = "ADD_CONT"
                    /\ Has(sess'[u].data, "desc")
                    /\ sess'[u].data["desc"] = t
               ELSE /\ sess'[u].state = "ADD_DESC"
                    /\ SameKey(sess[u].data, sess'[u].data, "desc")
                    /\ posts' = posts
                    /\ sess'[u].shown.kind \in {"desc_empty", "desc_too_long"}
     /\ (last'.op = "process_edit" /\ ~DescOk(Trimmed(last'.text))) =>
          LET u == last'.u
          IN /\ sess'[u].state = "EDIT_DESC"
             /\ SameKey(sess[u].data, sess'[u].data, "desc")
             /\ posts' = posts
             /\ sess'[u].shown.kind = "edit_bad_desc"]_vars

\* C5 witness: an over-length text was sent in EnterDescription and the
\* session is still there, showing the error prompt.
C5_W_OverLengthRejected ==
  /\ last.op = "add_desc"
  /\ Len(Trimmed(last.text)) > 300
  /\ sess[last.u].state = "ADD_DESC"
  /\ sess[last.u].shown.kind = "desc_too_long"

\* C6 as stated: in EnterContact a text moves the session to ConfirmCreate
\* with the draft contact set to that text exactly when the text fully
\* matches the contact pattern; any other non-empty text leaves the
\* session in EnterContact with the draft contact unchanged.
C6_ContactTextAsSent ==
  [][last'.op = "add_cont" =>
       LET u == last'.u
           t == last'.text
       IN IF ContactOk(t)
            THEN /\ sess'[u].state = "ADD_CONFIRM"
                 /\ Has(sess'[u].data, "cont")
                 /\ sess'[u].data["cont"] = t
            ELSE /\ sess'[u].state = "ADD_CONT"
                 /\ SameKey(sess[u].data, sess'[u].data, "cont")]_vars

\* C6 as amended: 'skip' moves the session to ConfirmCreate with an empty
\* draft contact; a text moves it to ConfirmCreate exactly when the text
\* without its leading and trailing whitespace fully matches the contact
\* pattern, and the draft contact is then that trimmed text; any other
\* text leaves the session in EnterContact with the draft contact
\* unchanged and shows an error prompt.
C6_ContactTextTrimmed ==
  [][/\ last'.op = "skip_cont" =>
          /\ sess'[last'.u].state = "ADD_CONFIRM"
          /\ Has(sess'[last'.u].data, "cont")
          /\ sess'[last'.u].data["cont"] = <<>>
     /\ last'.op = "add_cont" =>
          LET u == last'.u
              t == Trimmed(last'.text)
          IN IF ContactOk(t)
               THEN /\ sess'[u].state = "ADD_CONFIRM"
                    /\ Has(sess'[u].data, "cont")
                    /\ sess'[u].data["cont"] = t
               ELSE /\ sess'[u].state = "ADD_CONT"
                    /\ SameKey(sess[u].data, sess'[u].data, "cont")
                    /\ sess'[u].shown.kind \in {"cont_empty", "cont_bad_format"}]_vars

\* C6 witness: a contact sent with whitespace around it was accepted and
\* the draft contact is the text without that whitespace.
C6_W_TrimmedContactAccepted ==
  /\ last.op = "add_cont"
  /\ last.text # Trimmed(last.text)
  /\ sess[last.u].state = "ADD_CONFIRM"
  /\ sess[last.u].data["cont"] = Trimmed(last.text)

\* C7: 'confirm' in ConfirmCreate adds exactly one listing, owned by the
\* requesting user, whose type, category, description and contact are the
\* draft's, changes no other listing, and leaves the session in MyListings
\* with offset 0.
C7_ConfirmInsertsDraft ==
  [][last'.op = "add_confirm" =>
       LET u == last'.u
           d == sess[u].data
       IN /\ \E id \in DOMAIN posts' \ DOMAIN posts :
               /\ DOMAIN posts' = DOMAIN posts \cup {id}
               /\ posts'[id].user_id = u
               /\ posts'[id].type = d["type"]
               /\ posts'[id].category = d["category"]
               /\ posts'[id].description = d["desc"]
               /\ posts'[id].contacts = d["cont"]
          /\ \A i \in DOMAIN posts : posts'[i] = posts[i]
          /\ sess'[u].state = "MY_POSTS_VIEW"
          /\ Has(sess'[u].data, "offset")
          /\ sess'[u].data["offset"] = 0]_vars

\* C7 witness: a listing with a contact was confirmed and is in the store.
C7_W_ConfirmedWithContact ==
  /\ last.op = "add_confirm"
  /\ last.arg \in DOMAIN posts
  /\ posts[last.arg].contacts # <<>>
  /\ posts[last.arg].user_id = last.u
  /\ sess[last.u].state = "MY_POSTS_VIEW"

\* C8: after 'confirm' has persisted a listing, the draft fields type,
\* category, description and contact are no longer set in the session.
C8_DraftClearedAfterConfirm ==
  (last.op = "add_confirm" /\ last.arg \in DOMAIN posts) =>
    DOMAIN sess[last.u].data \cap {"type", "category", "desc", "cont"} = {}

\* C9: in EditDescription every text of trimmed length 1 to 300 becomes the
\* description of the listing being edited and the session returns to
\* MyListings at the same stored offset, also when the text equals the
\* current description.  Stated for a listing that is in the store when
\* the text arrives.
C9_ValidEditPersistsAndReturns ==
  [][(/\ last'.op = "process_edit"
      /\ DescOk(Trimmed(last'.text))
      /\ sess[last'.u].data["edit_pid"] \in DOMAIN posts) =>
       LET u == last'.u
           pid == sess[u].data["edit_pid"]
       IN /\ pid \in DOMAIN posts'
          /\ posts'[pid].description = Trimmed(last'.text)
          /\ sess'[u].state = "MY_POSTS_VIEW"
          /\ SameKey(sess[u].data, sess'[u].data, "offset")]_vars

\* The listings user 1 sees in the view the shown page belongs to.
Matching(S) ==
  IF S.shown.kind = "my_posts"
    THEN {i \in DOMAIN posts : posts[i].user_id = 1}
    ELSE {i \in DOMAIN posts : posts[i].category = S.data["current_view_category"]}

Newer(S, i) ==
  {j \in Matching(S) : posts[j].created_at > posts[i].created_at}

\* C10: a page rendered for total >= 1 listings at an offset that is a
\* multiple of the page size below total shows exactly the listings at
\* positions [offset, min(offset + 5, total)) of the newest-first order,
\* offers 'previous' iff offset > 0 and 'next' iff offset + 5 < total, and
\* reports page offset/5 + 1 of ceil(total/5).
C10_PageContents ==
  LET S == sess[1]
      total == Cardinality(Matching(S))
      offset == S.data["offset"]
      shown_n == IF offset + 5 < total THEN 5 ELSE total - offset
  IN (/\ S.shown.kind \in {"my_posts", "view_posts"}
      /\ total >= 1
      /\ offset % 5 = 0
      /\ offset < total) =>
       /\ Len(S.shown.items) = shown_n
       /\ \A k \in 1..shown_n :
            /\ S.shown.items[k] \in Matching(S)
            /\ Cardinality(Newer(S, S.shown.items[k])) = offset + k - 1
       /\ S.shown.prev <=> offset > 0
       /\ S.shown.next <=> offset + 5 < total
       /\ S.shown.page * 5 = offset + 5
       /\ S.shown.pages * 5 >= total
       /\ (S.shown.pages - 1) * 5 < total

\* C10 witness: browsing 12 listings, the third page: 2 listings, 'previous' and no
\* 'next', page 3 of 3.
C10_W_ThirdPageOfTwelve ==
  LET S == sess[1]
  IN /\ S.shown.kind = "view_posts"
     /\ Cardinality(Matching(S)) = 12
     /\ S.data["offset"] = 10
     /\ Len(S.shown.items) = 2
     /\ S.shown.prev
     /\ ~S.shown.next
     /\ S.shown.page = 3
     /\ S.shown.pages = 3

\* The number of listings that match the view the latest event belongs to:
\* the user's own listings in my-listings, those of the browsed category in
\* browse.
PagedTotal ==
  IF last.op \in {"my_posts_start", "my_posts_paginate", "delete_post_handler"}
    THEN Cardinality({i \in DOMAIN posts : posts[i].user_id = last.u})
    ELSE Cardinality({i \in DOMAIN posts :
           posts[i].category = sess[last.u].data["current_view_category"]})

\* C11: after a pagination action in browse or my-listings the stored
\* offset lies in [0, total), total being the number of listings matching
\* the view when the page is rendered, so with at least one matching
\* listing the page is not empty and its number is at most the page count.
C11_OffsetWithinTotal ==
  (last.op \in {"view_paginate", "my_posts_paginate"} /\ PagedTotal >= 1) =>
    LET S == sess[last.u]
    IN /\ S.data["offset"] >= 0
       /\ S.data["offset"] < PagedTotal
       /\ S.shown.items # <<>>
       /\ S.shown.page <= S.shown.pages

\* C12: the stored pagination offset of every session is a non-negative
\* multiple of 5, whatever browse, my-listings, pagination, delete, edit and
\* go-back events were issued through the buttons the bot has rendered.
C12_OffsetMultipleOfPageSize ==
  \A u \in Users :
    "offset" \in DOMAIN sess[u].data =>
      /\ sess[u].data["offset"] >= 0
      /\ sess[u].data["offset"] % 5 = 0

\* C12 witness: user 1 has deleted a listing and is back on the first page
\* while user 2 is on the second page of the category.
C12_W_SecondPageAndDeletion ==
  /\ last.op = "delete_post_handler"
  /\ last.notice = "deleted"
  /\ sess[1].data["offset"] = 0
  /\ sess[2].state = "VIEW_LISTING"
  /\ sess[2].data["offset"] = 5

\* C13: a successful deletion in my-listings at stored offset k shows
\* my-listings again at offset k, or at k - 5 when the page at k has become
\* empty and k > 0; so the page shown lists at least one listing whenever
\* the user still owns one.
C13_PageAfterDeletion ==
  [][(last'.op = "delete_post_handler" /\ last'.notice = "deleted") =>
       LET u == last'.u
           k == IF "offset" \in DOMAIN sess[u].data THEN sess[u].data["offset"] ELSE 0
           left == Cardinality({i \in DOMAIN posts' : posts'[i].user_id = u})
           shown_at == IF k >= left /\ k > 0 THEN k - 5 ELSE k
       IN /\ sess'[u].state = "MY_POSTS_VIEW"
          /\ sess'[u].data["offset"] = shown_at
          /\ left >= 1 => /\ sess'[u].shown.kind = "my_posts"
                          /\ sess'[u].shown.items # <<>>]_vars

\* C14: a page of browse or my-listings shows its listings by creation time
\* descending, listings of equal creation time by identity descending.
C14_NewestFirstTiesByIdentity ==
  (last.op \in {"view_cat", "view_paginate", "my_posts_start", "my_posts_paginate"}) =>
    LET items == sess[last.u].shown.items
    IN \A k \in 1..(Len(items) - 1) :
         \/ posts[items[k]].created_at > posts[items[k + 1]].created_at
         \/ /\ posts[items[k]].created_at = posts[items[k + 1]].created_at
            /\ items[k] > items[k + 1]

\* C15: the 'go to main menu' action leaves the session in MainMenu,
\* whatever the state, the draft and the offset were.
C15_MainMenuFromEverywhere ==
  [][last'.op = "on_back_to_main" => sess'[last'.u].state = "MAIN_MENU"]_vars

\* C15 witness: 'go to main menu' was pressed with a draft and an offset in
\* the session.
C15_W_MainMenuWithDraft ==
  /\ last.op = "on_back_to_main"
  /\ sess[1].state = "MAIN_MENU"
  /\ {"type", "category", "desc", "offset"} \subseteq DOMAIN sess[1].data

\* C16: 'go back' lands on the fixed predecessor of the state it is pressed
\* in (EditDescription going to MyListings at the stored offset) and
\* changes no listing.
C16_GoBackPredecessor ==
  [][last'.op = "on_back_to_prev_step" =>
       LET u == last'.u
           from == sess[u].state
           to == sess'[u].state
       IN /\ posts' = posts
          /\ from = "ADD_TYPE" => to = "MAIN_MENU"
          /\ from = "ADD_CAT" => to = "ADD_TYPE"
          /\ from = "ADD_DESC" => to = "ADD_CAT"
          /\ from = "ADD_CONT" => to = "ADD_DESC"
          /\ from = "ADD_CONFIRM" => to = "ADD_CONT"
          /\ from = "VIEW_CAT" => to = "MAIN_MENU"
          /\ from = "VIEW_LISTING" => to = "VIEW_CAT"
          /\ from = "MY_POSTS_VIEW" => to = "MAIN_MENU"
          /\ from = "EDIT_DESC" =>
               /\ to = "MY_POSTS_VIEW"
               /\ sess'[u].data["offset"] = sess[u].data["offset"]
               /\ sess'[u].shown.kind = "my_posts"
               /\ sess'[u].shown.page * MY_POSTS_PER_PAGE =
                    sess[u].data["offset"] + MY_POSTS_PER_PAGE]_vars

\* C16 witness: 'go back' pressed in EditDescription has shown the second
\* page of my-listings again.
C16_W_BackFromEdit ==
  /\ last.op = "on_back_to_prev_step"
  /\ sess[1].state = "MY_POSTS_VIEW"
  /\ sess[1].data["offset"] = MY_POSTS_PER_PAGE

\* The session a render request of the latest event found: /start forgets
\* the recorded message id before it renders.
AtRender(S, op) ==
  IF op = "on_start"
    THEN [S EXCEPT !.data = [k \in DOMAIN S.data \ {"last_bot_message_id"} |-> S.data[k]]]
    ELSE S

\* C17: a render request sends exactly one message and records its id when
\* no id is recorded or the recorded message cannot be edited, and sends
\* nothing and keeps the recorded id when the recorded message is edited
\* or is reported unchanged; afterwards the recorded id is the id of the
\* message that shows the rendered content, and no other message changed.
C17_RenderRequest ==
  [][last'.op \notin {"init", "tick", "delete_message"} =>
       LET S == AtRender(sess[last'.u], last'.op)
           T == sess'[last'.u]
           recorded == "last_bot_message_id" \in DOMAIN S.data
           editable == recorded /\ S.data["last_bot_message_id"] \in DOMAIN S.chat
       IN /\ ~editable =>
               /\ T.sent = S.sent + 1
               /\ T.data["last_bot_message_id"] = T.sent
               /\ DOMAIN T.chat = DOMAIN S.chat \cup {T.sent}
          /\ editable =>
               /\ T.sent = S.sent
               /\ T.data["last_bot_message_id"] = S.data["last_bot_message_id"]
               /\ DOMAIN T.chat = DOMAIN S.chat
          /\ T.chat[T.data["last_bot_message_id"]] = T.shown
          /\ \A m \in DOMAIN S.chat \ {T.data["last_bot_message_id"]} :
               T.chat[m] = S.chat[m]]_vars

\* C17 witness: the first message was deleted and a later render has sent
\* and recorded a second one.
C17_W_ResentAfterDeletion ==
  /\ last.op = "help_handler"
  /\ sess[1].sent = 2
  /\ DOMAIN sess[1].chat = {2}
  /\ sess[1].data["last_bot_message_id"] = 2
  /\ sess[1].chat[2].kind = "help"

\* C18: while every send and edit succeeds, the chat shows at most one
\* interface message, the one whose id is recorded.
C18_OneVisibleMessage ==
  \A u \in Users :
    /\ Cardinality(DOMAIN sess[u].chat) <= 1
    /\ \A m \in DOMAIN sess[u].chat :
         /\ "last_bot_message_id" \in DOMAIN sess[u].data
         /\ sess[u].data["last_bot_message_id"] = m

\* C19: a render request with the content of the request before it sends
\* nothing, keeps the recorded id and leaves exactly one visible message.
C19_SameRenderTwice ==
  [][(/\ last'.op \notin {"init", "tick", "delete_message", "on_start"}
      /\ sess[last'.u].sent >= 1
      /\ sess'[last'.u].shown = sess[last'.u].shown) =>
       LET S == sess[last'.u]
           T == sess'[last'.u]
       IN /\ T.sent = S.sent
          /\ T.data["last_bot_message_id"] = S.data["last_bot_message_id"]
          /\ Cardinality(DOMAIN T.chat) = 1]_vars

\* C20: when an insert, update or delete of the store fails, nothing is
\* persisted, a failure is reported and the session is left in MainMenu.
C20_StoreFailureToMainMenu ==
  [][last'.op \in {"add_confirm_store_error", "process_edit_store_error",
                    "delete_post_handler_store_error"} =>
       /\ posts' = posts
       /\ \/ sess'[last'.u].shown.kind \in {"add_error", "edit_error"}
          \/ last'.notice = "delete_failed"
       /\ sess'[last'.u].state = "MAIN_MENU"]_vars

\* C21: whenever a handler lets an exception through, err_handler shows
\* the apology and leaves the session in MainMenu, whatever the exception.
C21_UnhandledErrorToMainMenu ==
  [][last'.op = "err_handler" =>
       /\ sess'[last'.u].state = "MAIN_MENU"
       /\ sess'[last'.u].shown.kind \in {"error_parse", "error_internal"}]_vars

\* C22: /start resets the session: afterwards the state is MainMenu and
\* the draft fields, the browse filter, the pagination offset and the edit
\* target collected before it are no longer set.
C22_RestartClearsSession ==
  [][last'.op = "on_start" =>
       /\ sess'[last'.u].state = "MAIN_MENU"
       /\ DOMAIN sess'[last'.u].data \cap
            {"type", "category", "desc", "cont", "current_view_category",
             "current_category_idx", "offset", "edit_pid"} = {}]_vars

\* C23: the events of one session are handled one at a time: an event is
\* matched against the session's state only when no handler of an earlier
\* event of that session is still running.
C23_OneEventAtATime ==
  [][last'.op = "add_confirm_matched" => sess[last'.u].awaiting = <<>>]_vars

\* C28: one pass through ConfirmCreate inserts at most one listing: of two
\* 'confirm' handlers of a session that complete with no other event of
\* the session between them, the second inserts nothing.
C28_ConfirmInsertsOnce ==
  [][(/\ last.op = "add_confirm"
      /\ last'.op = "add_confirm"
      /\ last'.u = last.u
      /\ last.arg \in DOMAIN posts) => posts' = posts]_vars

\* C24: the session state survives a restart of the process: the step, the
\* draft fields, the offset and the last message id of every session are
\* after the restart what they were before it.
C24_SessionSurvivesRestart ==
  [][last'.op = "restart" =>
       \A u \in Users :
         /\ sess'[u].state = sess[u].state
         /\ sess'[u].data = sess[u].data]_vars

\* Seven days, in minutes of the clock.
RetentionMinutes == 7 * DayMinutes

\* C25: a listing created more than 7 days ago is eventually removed:
\* whenever the store holds such a listing, later it holds none.
C25_OldListingsEventuallyRemoved ==
  (\E p \in DOMAIN posts : now - posts[p].created_at > RetentionMinutes)
    ~> (\A p \in DOMAIN posts : now - posts[p].created_at <= RetentionMinutes)

C30_PageErrorEndsInMainMenu ==
  [][last'.notice = "page_error" => sess'[last'.u].state = "MAIN_MENU"]_vars

\* C27: whenever the session is in ConfirmCreate the four draft fields are
\* set and valid (a listing type, one of the categories, a description of
\* trimmed length 1 to 300, a contact that is empty or matches the
\* pattern) and each was written after the latest entry into ChooseType;
\* the contact re-validation branch of the confirm handler is never taken.
C27_ConfirmDraftComplete ==
  \A u \in Users :
    /\ sess[u].shown.kind # "contact_error"
    /\ sess[u].state = "ADD_CONFIRM" =>
         LET d == sess[u].data IN
         /\ DraftKeys \subseteq DOMAIN d
         /\ d["type"] \in TYPES
         /\ d["category"] \in SeqRange(CATEGORIES)
         /\ DescOk(d["desc"])
         /\ d["cont"] = <<>> \/ ContactOk(d["cont"])
         /\ DraftKeys \subseteq sess[u].written

\* The callback data (by prefix) of the buttons of a rendered screen: the
\* keyboards main_kb, type_kb, cat_kb, back_kb, contact_kb and the ones
\* built in place.
MainKb == {"add_post", "view_posts", "my_posts", "help"}

Controls(m) ==
  CASE m.kind \in {"welcome", "contact_error", "add_error", "edit_error",
                   "error_parse", "error_internal", "my_posts_error",
                   "view_posts_error"} -> MainKb
    [] m.kind = "choose_type" -> {"type_", "go_back_to_main_menu"}
    [] m.kind = "choose_post_cat" -> {"post_cat_", "go_back_to_prev_step"}
    [] m.kind = "choose_view_cat" -> {"view_cat_", "go_back_to_prev_step"}
    [] m.kind \in {"enter_desc", "desc_empty", "desc_too_long",
                   "enter_new_desc", "edit_bad_desc"} -> {"go_back_to_prev_step"}
    [] m.kind \in {"enter_cont", "cont_empty", "cont_bad_format"} ->
         {"skip_cont", "go_back_to_prev_step"}
    [] m.kind = "confirm_summary" -> {"confirm_add_post", "go_back_to_prev_step"}
    [] m.kind = "no_my_posts" -> {"add_post", "go_back_to_main_menu"}
    [] m.kind = "my_posts" ->
         {"go_back_to_main_menu"}
           \cup (IF m.items # <<>> THEN {"delete_"} ELSE {})
           \cup (IF m.edit # {} THEN {"edit_"} ELSE {})
           \cup (IF m.nav # {} THEN {"mypage_"} ELSE {})
    [] m.kind \in {"view_posts", "view_empty"} ->
         {"go_back_to_prev_step", "go_back_to_main_menu"}
           \cup (IF m.nav # {} THEN {"viewpage_"} ELSE {})
    [] m.kind = "help" -> {"go_back_to_main_menu"}
    [] OTHER -> {}

\* C29: after every handler the state and the interface message agree:
\* every button of the screen rendered last is accepted by a handler in
\* the session's state.
C29_ControlsAccepted ==
  \A u \in Users : Controls(sess[u].shown) \subseteq Accepted(sess[u].state)

\* The callback data (or "text") of the event a step has handled.
EventData(e) ==
  CASE e.op = "unhandled" -> e.notice
    [] e.op = "add_confirm" -> "confirm_add_post"
    [] e.op = "edit_start" -> "edit_"
    [] e.op = "delete_post_handler" -> "delete_"
    [] e.op = "my_posts_paginate" -> "mypage_"
    [] e.op = "view_paginate" -> "viewpage_"
    [] e.op = "add_type" -> "type_"
    [] e.op = "add_cat" -> "post_cat_"
    [] e.op = "view_cat" -> "view_cat_"
    [] e.op = "view_start" -> "view_posts"
    [] e.op = "my_posts_start" -> "my_posts"
    [] e.op = "help_handler" -> "help"
    [] e.op \in {"add_desc", "add_cont", "process_edit"} -> "text"
    [] OTHER -> "other"

\* The states that expect an action or a text.
ExpectedIn(data) ==
  CASE data = "confirm_add_post" -> {"ADD_CONFIRM"}
    [] data \in {"edit_", "delete_", "mypage_"} -> {"MY_POSTS_VIEW"}
    [] data = "viewpage_" -> {"VIEW_LISTING"}
    [] data = "type_" -> {"ADD_TYPE"}
    [] data = "post_cat_" -> {"ADD_CAT"}
    [] data = "view_cat_" -> {"VIEW_CAT"}
    [] data \in {"view_posts", "my_posts", "help"} -> {"MAIN_MENU"}
    [] data = "text" -> {"ADD_DESC", "ADD_CONT", "EDIT_DESC"}
    [] OTHER -> {}

\* C31: an action or a text that the current state does not expect leaves
\* the session (state, draft, offset, interface message) and the store
\* unchanged.
C31_UnexpectedChangesNothing ==
  [][(/\ last'.u \in Users
      /\ EventData(last') # "other"
      /\ sess[last'.u].state \notin ExpectedIn(EventData(last'))) =>
       /\ sess' = sess
       /\ posts' = posts]_vars

\* C31 witness: a 'delete' callback arrived in EditDescription, with the
\* listing in the store, and was dropped.
C31_W_DeleteDroppedInEdit ==
  /\ last.op = "unhandled"
  /\ last.notice = "delete_"
  /\ sess[1].state = "EDIT_DESC"
  /\ sess[1].data["edit_pid"] \in DOMAIN posts

\* The my-listings pages in the chat of user u that carry the 'edit'
\* button of listing pid, by the offset they were rendered at.
EditPressedAt(u, pid) ==
  {(m.page - 1) * MY_POSTS_PER_PAGE :
     m \in {v \in Visible(u) : v.kind = "my_posts" /\ pid \in v.edit}}

\* C32: whenever the session is in EditDescription the stored edit target
\* is the listing whose 'edit' action caused the entry, and the stored
\* offset is the offset of a my-listings page in the chat that carries that
\* action; both stay as they are while the session stays in
\* EditDescription.
C32_EditTargetAndOffset ==
  [][\A u \in Users :
       sess'[u].state = "EDIT_DESC" =>
         IF sess[u].state = "EDIT_DESC"
           THEN /\ sess'[u].data["edit_pid"] = sess[u].data["edit_pid"]
                /\ sess'[u].data["offset"] = sess[u].data["offset"]
           ELSE /\ last'.op = "edit_start"
                /\ sess'[u].data["edit_pid"] = last'.arg
                /\ sess'[u].data["offset"] \in EditPressedAt(u, last'.arg)]_vars

====
